---- MODULE Spec2Model ----
(***************************************************************************)
(* The BookmarkManager component (src/src/components/BookmarkManager.tsx): *)
(* its React state, its three handlers (fetchBookmarks, addBookmark,       *)
(* deleteBookmark), its realtime subscription handler, and the backend it  *)
(* talks to (the bookmarks table behind the Persistence Gateway and the    *)
(* Change Notifier's event stream).  Every gateway round trip is three     *)
(* steps: the handler issues the request, the backend handles it, the      *)
(* awaiting handler resumes with the response.                             *)
(***************************************************************************)
EXTENDS Integers, Sequences, FiniteSets, Bags, TLC

\* Bounds of the model.
MaxId == 2          \* rows the backend ever creates
MaxInflight == 2    \* gateway round trips in flight at once
MaxFailures == 1    \* gateway failures (a failed call, an outage) in one run
MaxSubs == 3        \* subscriptions the component ever establishes
MaxEntries == 2     \* entries of the src/ directory the audit scans
MaxLen == 3         \* records of a collection a handler is applied to

Users == {"u1", "u2"}
NoUser == "nobody"  \* getUser() found no session
NoId == 0
NoExit == -1         \* the setup utility has not exited

\* Strings are sequences of characters; what a user may type into a field.
FormInputs == { <<>>, <<" ">>, <<" ", "a">> }
ValidInputs == { <<" ", "a">> }
EditedTitle == <<"b">>

VARIABLES
    mounted,            \* the component's effects have run
    user,               \* props.user.id
    bookmarks,          \* useState<Bookmark[]>([])
    title, url,         \* the form's inputs
    loading,            \* a create is in flight
    fetchingBookmarks,  \* the loading flag of fetchBookmarks
    requests,           \* gateway round trips in flight
    db,                 \* the backend's bookmarks table
    nextId,             \* the next id / created_at the backend assigns
    failures,           \* gateway calls that have failed so far
    subs,               \* every subscription established so far, in order:
                        \* its filter and how often it was removed
    connected,          \* the notifier's connection is up
    events,             \* change notifications on their way to the handler
    lastOp,             \* the handler that ran last, the id it was about,
                        \* and whether it kept the collection as it was
    page,               \* what the bookmarks route resolved to
    alerts,             \* alert() dialogs shown so far
    setup,              \* the run of scripts/setup-db.js
    audit               \* the run of scripts/check-security.js

vars == <<mounted, user, bookmarks, title, url, loading, fetchingBookmarks,
          requests, db, nextId, failures, subs, connected, events, lastOp,
          page, alerts, setup, audit>>


Op(name, id, kept) == [op |-> name, id |-> id, kept |-> kept]

----------------------------------------------------------------------------
\* Pure helpers.

RECURSIVE TrimStart(_)
TrimStart(s) ==
    IF s # <<>> /\ Head(s) = " " THEN TrimStart(Tail(s)) ELSE s

RECURSIVE TrimEnd(_)
TrimEnd(s) ==
    IF s # <<>> /\ s[Len(s)] = " " THEN TrimEnd(SubSeq(s, 1, Len(s) - 1)) ELSE s

\* String.prototype.trim
Trim(s) == TrimEnd(TrimStart(s))

\* Variant: the emptiness test without the trim.
IsBlankUntrimmed(s) == s = <<>>

\* !title.trim()
IsBlank(s) == Trim(s) = <<>>

Ids(current) == { current[i].id : i \in DOMAIN current }

Count(current, id) == Cardinality({ i \in DOMAIN current : current[i].id = id })

\* current.some((b) => b.id === id)
Exists(current, id) == \E i \in DOMAIN current : current[i].id = id

Row(id, owner, t, u) ==
    [id |-> id, created_at |-> id, user_id |-> owner, title |-> t, url |-> u]

\* The list ordered the wrong way round: ascending: true.
RECURSIVE OrderAsc(_)
OrderAsc(S) ==
    IF S = {} THEN <<>>
    ELSE LET low == CHOOSE r \in S : \A q \in S : q.created_at >= r.created_at
         IN <<low>> \o OrderAsc(S \ {low})

\* .order('created_at', { ascending: false })
RECURSIVE OrderDesc(_)
OrderDesc(S) ==
    IF S = {} THEN <<>>
    ELSE LET top == CHOOSE r \in S : \A q \in S : q.created_at <= r.created_at
         IN <<top>> \o OrderDesc(S \ {top})

\* .eq('user_id', owner)
OwnedBy(owner) == { r \in db : r.user_id = owner }

----------------------------------------------------------------------------
\* The state updaters handed to setBookmarks.

\* Variant: the INSERT handler without its presence check.
OnInsertNoDedupe(current, rec) == <<rec>> \o current

\* realtime INSERT
OnInsert(current, rec) ==
    IF Exists(current, rec.id) THEN current ELSE <<rec>> \o current

\* Variant: removal by splice(findIndex(...), 1), which drops the last record
\* when the id is absent.
OnDeleteSplice(current, id) ==
    IF Exists(current, id)
    THEN SelectSeq(current, LAMBDA b : b.id # id)
    ELSE SubSeq(current, 1, Len(current) - 1)

\* Variant: nothing is removed until the backend has confirmed.
OnDeleteNothing(current, id) == current

\* realtime DELETE, and deleteBookmark's optimistic removal
OnDelete(current, id) == SelectSeq(current, LAMBDA b : b.id # id)

\* Variant: the updated record taken out and put first.
OnUpdateToFront(current, rec) == <<rec>> \o OnDelete(current, rec.id)

\* realtime UPDATE
OnUpdate(current, rec) ==
    [i \in DOMAIN current |->
        IF current[i].id = rec.id THEN rec ELSE current[i]]

\* A callback that keeps only what the notification carries.
OnPayloadReset(current, e) ==
    IF e.kind = "DELETE" THEN <<>> ELSE <<e.rec>>

\* The subscription's callback: one branch per payload.eventType.
OnPayload(current, e) ==
    CASE e.kind = "INSERT" -> OnInsert(current, e.rec)
      [] e.kind = "DELETE" -> OnDelete(current, e.rec.id)
      [] e.kind = "UPDATE" -> OnUpdate(current, e.rec)

\* Variant: the created record put last.
OnCreatedAppend(current, data) == current \o <<data>>

\* addBookmark's success branch
OnCreated(current, data) == <<data>> \o current

\* Variant: the list merged into the collection instead of replacing it.
OnFetchedMerge(current, data) ==
    data \o SelectSeq(current, LAMBDA b : ~Exists(data, b.id))

\* fetchBookmarks' success branch: setBookmarks(data || [])
OnFetched(current, data) == data

\* setBookmarks(data || []) run on the error path too, where data is null.
OnFetchFailedClear(current) == <<>>

\* fetchBookmarks' error branch: console.error only, no setBookmarks.
OnFetchFailed(current) == current

\* The form reset run whatever the insert's outcome.
OnAddFailedClear(form) == [title |-> <<>>, url |-> <<>>]

\* addBookmark's error branch: console.error and alert, no setTitle/setUrl.
OnAddFailed(form) == form

\* What the handler awaiting round trip r does to the collection when it
\* resumes: addBookmark prepends on success; deleteBookmark, whose removal
\* came before the call, writes nothing.
OnResolved(current, r) ==
    IF r.kind = "insert" /\ r.stage = "ok"
    THEN OnCreated(current, r.data[1])
    ELSE current

\* The id round trip r is about.
IdOf(r) == IF r.kind = "insert" /\ r.stage = "ok" THEN r.data[1].id ELSE r.id

----------------------------------------------------------------------------
\* Requests and events.

Request(kind, owner, id, t, u) ==
    [kind |-> kind, owner |-> owner, id |-> id, title |-> t, url |-> u,
     stage |-> "sent", data |-> <<>>]

ListRequest(owner, cause) == Request("list", owner, cause, <<>>, <<>>)

Event(kind, rec) == [kind |-> kind, rec |-> rec]

\* supabase.channel(...).on(..., filter: user_id=eq.<owner>).subscribe()
Subscription(owner) == [filter |-> owner, removed |-> 0]

\* The subscriptions that were established and not removed.
Active(ss) == { i \in DOMAIN ss : ss[i].removed = 0 }

Filters == { subs[i].filter : i \in Active(subs) }

\* An effect whose cleanup was dropped: the channel is never removed.
CleanupNone(ss) == ss

\* The effect's cleanup: supabase.removeChannel(channel) on the channel its
\* own run created, which is the one established last.
Cleanup(ss) ==
    IF ss = <<>> THEN ss
    ELSE [ss EXCEPT ![Len(ss)].removed = @ + 1]

\* The round trips in flight are a bag: two calls may be equal.
Issue(r) == requests (+) SetToBag({r})

Settle(r) == requests (-) SetToBag({r})

InFlight == BagToSet(requests)

Answer(r, stage, data) ==
    Settle(r) (+) SetToBag({[r EXCEPT !.stage = stage, !.data = data]})

\* The notifier delivers an event only to a live subscription whose owner
\* filter matches the row.
Emit(e) ==
    IF connected
    THEN LET n == Cardinality({ i \in Active(subs) :
                                   subs[i].filter = e.rec.user_id })
         IN events \o [j \in 1..n |-> e]
    ELSE events

InsertsSent ==
    Cardinality({ r \in InFlight : r.kind = "insert" /\ r.stage = "sent" })

\* Rows the backend may still be asked to create.
IdsLeft == nextId + InsertsSent <= MaxId

\* A run of the setup utility that has not started: the two environment
\* variables, whether the bookmarks table exists, whether row-level security
\* is in force on it, and whether the backend can be reached.
SetupRun(envUrl, envKey, table, rls, up) ==
    [pc |-> "start", url |-> envUrl, key |-> envKey, table |-> table,
     rls |-> rls, up |-> up, exit |-> NoExit, log |-> <<>>]

\* What process.env holds for a variable: nothing, '', or a value.
EnvValues == {"unset", "", "value"}

SetupIdle == SetupRun("value", "value", TRUE, TRUE, TRUE)

SetupRuns ==
    { SetupRun(envUrl, envKey, table, rls, up) :
        envUrl \in EnvValues, envKey \in EnvValues,
        table \in BOOLEAN, rls \in BOOLEAN, up \in BOOLEAN }

\* !supabaseUrl, !supabaseAnonKey
Falsy(v) == v \in {"unset", ""}

\* The errors the two queries may come back with; none is NoError.
Error(code, message) == [code |-> code, message |-> message]

NoError == Error("", "")

\* select on a table that is not there: PostgreSQL's undefined_table, or the
\* API layer's own error for a table missing from its schema cache.
MissingTableErrors ==
    { Error("42P01", "does not exist"), Error("PGRST205", "schema cache") }

\* insert refused by a policy.
RlsErrors == { Error("42501", "row-level security") }

\* insert refused for another reason: user_id references no auth.users row.
OtherInsertErrors == { Error("23503", "foreign key") }

\* The backend cannot be reached: the client returns an error, or the
\* call throws and the catch block takes over.
Thrown == Error("thrown", "fetch failed")

NetworkErrors == { Error("", "fetch failed"), Thrown }

\* error.message.includes('does not exist') || error.code === '42P01'
IsMissingTable(err) == err.message = "does not exist" \/ err.code = "42P01"

\* insertError.message.includes('row-level security') ||
\* insertError.code === '42501'
IsRlsRejection(err) == err.message = "row-level security" \/ err.code = "42501"

\* What the backend answers to the select of the bookmarks table.
SelectResults(run) ==
    IF ~run.up THEN NetworkErrors
    ELSE IF ~run.table THEN MissingTableErrors
    ELSE {NoError}

\* What the backend answers to the unauthenticated test insert.
InsertResults(run) ==
    IF run.rls THEN RlsErrors ELSE {NoError} \cup OtherInsertErrors

Exit(run, code, lines) ==
    [run EXCEPT !.pc = "done", !.exit = code, !.log = @ \o lines]

----------------------------------------------------------------------------
\* scripts/check-security.js: what it finds in the working directory.

\* An entry of a directory: a file, by its extension and by what reading it
\* gives (no credential pattern, one, or an exception), or a subdirectory.
File(ext, content) == [kind |-> "file", ext |-> ext, content |-> content]

Dir(entries) == [kind |-> "dir", entries |-> entries]

Extensions == {".ts", ".md"}

Contents == {"clean", "secret", "unreadable"}

Files == { File(ext, content) : ext \in Extensions, content \in Contents }

Entries == Files \cup {Dir(<<>>)} \cup { Dir(<<f>>) : f \in Files }

\* The src/ directory: up to MaxEntries entries in readdirSync's order.
Trees == UNION { [1..n -> Entries] : n \in 0..MaxEntries }

\* file.name.endsWith('.ts') || ... '.tsx' || ... '.js'
Scanned(ext) == ext \in {".ts", ".tsx", ".js"}

\* scanDirectory(dir), from the flags st it starts with: hasIssues, and
\* whether an exception has left the scan.  The three patterns flag a file
\* whose content matches one of them; readFileSync throws on a file that
\* cannot be read.
RECURSIVE ScanDirectory(_, _)
ScanDirectory(dir, st) ==
    IF st.thrown \/ dir = <<>> THEN st
    ELSE LET file == Head(dir)
             after ==
               IF file.kind = "dir" THEN ScanDirectory(file.entries, st)
               ELSE IF ~Scanned(file.ext) THEN st
               ELSE IF file.content = "unreadable"
                    THEN [st EXCEPT !.thrown = TRUE]
               ELSE IF file.content = "secret"
                    THEN [st EXCEPT !.hasIssues = TRUE]
               ELSE st
         IN ScanDirectory(Tail(dir), after)

\* A run of the audit that has not started.
AuditRun(gitignore, example, src, git, pkg) ==
    [pc |-> "gitignore", gitignore |-> gitignore, example |-> example,
     src |-> src, git |-> git, pkg |-> pkg, hasIssues |-> FALSE,
     exit |-> NoExit]

AuditIdle == AuditRun("excludes .env", "placeholders", <<>>, "clean", "ok")

\* One check is over: the flag is raised or stays, and the next check is due.
Checked(run, issue, next) ==
    [run EXCEPT !.pc = next, !.hasIssues = @ \/ issue]

----------------------------------------------------------------------------
\* The state every run starts from, whoever is signed in.
Fresh ==
    /\ mounted = FALSE
    /\ bookmarks = <<>>
    /\ title = <<>>
    /\ url = <<>>
    /\ loading = FALSE
    /\ fetchingBookmarks = TRUE
    /\ requests = EmptyBag
    /\ db = {}
    /\ nextId = 1
    /\ failures = 0
    /\ subs = <<>>
    /\ connected = TRUE
    /\ events = <<>>
    /\ lastOp = Op("init", NoId, TRUE)
    /\ alerts = 0

\* The bookmarks route has rendered <BookmarkManager user={user} /> for a
\* signed-in user.
Init ==
    /\ Fresh
    /\ user = "u1"
    /\ page = "bookmarks"
    /\ setup = SetupIdle
    /\ audit = AuditIdle

\* A page that renders the component whoever asks for it.
RedirectsNever(u) == FALSE

\* BookmarksPage: if (!user) { redirect('/login') }
Redirects(u) == u = NoUser

\* A request for the bookmarks route, by a signed-in user or by nobody.
InitAuth ==
    /\ Fresh
    /\ user \in {"u1", NoUser}
    /\ page = "requested"
    /\ setup = SetupIdle
    /\ audit = AuditIdle

\* The server component: getUser(), then the redirect or the component.
BookmarksPage ==
    /\ page = "requested"
    /\ page' = IF Redirects(user) THEN "login" ELSE "bookmarks"
    /\ lastOp' = Op("page", NoId, TRUE)
    /\ UNCHANGED <<mounted, user, bookmarks, title, url, loading,
                   fetchingBookmarks, requests, db, nextId, failures, subs,
                   connected, events, alerts, setup, audit>>

\* The setup utility is run against some project, in some environment.
InitSetup ==
    /\ Fresh
    /\ user = "u1"
    /\ page = "bookmarks"
    /\ setup \in SetupRuns
    /\ audit = AuditIdle

\* setup-db.js, top level: the environment check.
SetupStart ==
    /\ setup.pc = "start"
    /\ setup' = IF Falsy(setup.url) \/ Falsy(setup.key)
                 THEN Exit(setup, 1, <<"missing environment variables">>)
                 ELSE [setup EXCEPT !.pc = "select",
                                    !.log = @ \o <<"checking table">>]
    /\ UNCHANGED <<mounted, user, bookmarks, title, url, loading,
                   fetchingBookmarks, requests, db, nextId, failures, subs,
                   connected, events, lastOp, page, alerts, audit>>

\* checkDatabaseSetup: the query of the bookmarks table and its branches.
SetupSelect ==
    /\ setup.pc = "select"
    /\ \E err \in SelectResults(setup) :
         setup' =
           IF err = Thrown
           THEN Exit(setup, 1, <<"unexpected error">>)
           ELSE IF err # NoError /\ IsMissingTable(err)
           THEN Exit(setup, 1, <<"table does not exist", "sql to run">>)
           ELSE IF err # NoError
           THEN Exit(setup, 1, <<"database error">>)
           ELSE [setup EXCEPT !.pc = "insert",
                              !.log = @ \o <<"table exists", "checking rls">>]
    /\ UNCHANGED <<mounted, user, bookmarks, title, url, loading,
                   fetchingBookmarks, requests, db, nextId, failures, subs,
                   connected, events, lastOp, page, alerts, audit>>

\* checkDatabaseSetup: the test insert, its two notes, and the closing report.
SetupInsert ==
    /\ setup.pc = "insert"
    /\ \E err \in InsertResults(setup) :
         LET note == IF err = NoError THEN <<>>
                     ELSE IF IsRlsRejection(err) THEN <<"rls working">>
                     ELSE <<"warning: unexpected error">>
         IN setup' = Exit(setup, 0, note \o <<"properly configured">>)
    /\ UNCHANGED <<mounted, user, bookmarks, title, url, loading,
                   fetchingBookmarks, requests, db, nextId, failures, subs,
                   connected, events, lastOp, page, alerts, audit>>

\* The rows a collection, a notification or a response may carry: each id,
\* as inserted or as edited by another session.
Rows ==
    { Row(id, "u1", t, <<"a">>) : id \in 1..MaxId, t \in {<<"a">>, EditedTitle} }

\* The collections the handlers may find; nothing in the code keeps them
\* sorted or free of repeated ids.
Collections == UNION { [1..n -> Rows] : n \in 0..MaxLen }

\* A round trip the gateway has answered with success.
Answered(kind, data) ==
    [Request(kind, "u1", NoId, <<>>, <<>>) EXCEPT !.stage = "ok", !.data = data]

\* The mounted component holds some collection and one thing is about to
\* reach it: a notification, the response to its insert, or the response
\* to a load.
InitFrame ==
    /\ mounted = TRUE
    /\ user = "u1"
    /\ bookmarks \in Collections
    /\ \/ /\ events \in { <<Event(kind, rec)>> :
                             kind \in {"INSERT", "DELETE", "UPDATE"},
                             rec \in Rows }
          /\ requests = EmptyBag
          /\ title = <<>> /\ url = <<>>
          /\ loading = FALSE
          /\ fetchingBookmarks = FALSE
       \/ /\ events = <<>>
          /\ requests \in { SetToBag({Answered("insert", <<rec>>)}) :
                               rec \in Rows }
          /\ title = <<" ", "a">> /\ url = <<" ", "a">>
          /\ loading = TRUE
          /\ fetchingBookmarks = FALSE
       \/ /\ events = <<>>
          /\ requests \in { SetToBag({Answered("list", OrderDesc(S))}) :
                               S \in { T \in SUBSET Rows :
                                         \A a, b \in T : a.id = b.id => a = b } }
          /\ title = <<>> /\ url = <<>>
          /\ loading = FALSE
          /\ fetchingBookmarks = TRUE
    /\ db = {}
    /\ nextId = MaxId + 1
    /\ failures = 0
    /\ subs = <<Subscription("u1")>>
    /\ connected = TRUE
    /\ lastOp = Op("init", NoId, TRUE)
    /\ page = "bookmarks"
    /\ alerts = 0
    /\ setup = SetupIdle
    /\ audit = AuditIdle

\* The audit is run in some working directory.
InitAudit ==
    /\ Fresh
    /\ user = "u1"
    /\ page = "bookmarks"
    /\ setup = SetupIdle
    /\ audit \in
         { AuditRun(gitignore, example, src, git, pkg) :
             gitignore \in {"missing", "no .env", "excludes .env"},
             example \in {"missing", "credentials", "placeholders"},
             src \in Trees,
             git \in {"no git", "clean", ".env listed"},
             pkg \in {"missing", "scripts missing", "ok"} }

\* Check 1: .gitignore exists and includes .env
CheckGitignore ==
    /\ audit.pc = "gitignore"
    /\ audit' = Checked(audit, audit.gitignore # "excludes .env", "example")
    /\ UNCHANGED <<mounted, user, bookmarks, title, url, loading,
                   fetchingBookmarks, requests, db, nextId, failures, subs,
                   connected, events, lastOp, page, alerts, setup>>

\* Check 2: .env.example exists and holds placeholders
CheckEnvExample ==
    /\ audit.pc = "example"
    /\ audit' = Checked(audit, audit.example # "placeholders", "scan")
    /\ UNCHANGED <<mounted, user, bookmarks, title, url, loading,
                   fetchingBookmarks, requests, db, nextId, failures, subs,
                   connected, events, lastOp, page, alerts, setup>>

\* Check 3: scanDirectory(srcPath) inside try/catch; the catch only warns,
\* and what the scan flagged before the exception stays flagged.
ScanSource ==
    /\ audit.pc = "scan"
    /\ LET st == ScanDirectory(audit.src,
                               [hasIssues |-> audit.hasIssues,
                                thrown |-> FALSE])
       IN audit' = [audit EXCEPT !.pc = "git", !.hasIssues = st.hasIssues]
    /\ UNCHANGED <<mounted, user, bookmarks, title, url, loading,
                   fetchingBookmarks, requests, db, nextId, failures, subs,
                   connected, events, lastOp, page, alerts, setup>>

\* Check 4: git status --porcelain mentions .env; without git, a warning.
CheckGitStatus ==
    /\ audit.pc = "git"
    /\ audit' = Checked(audit, audit.git = ".env listed", "package")
    /\ UNCHANGED <<mounted, user, bookmarks, title, url, loading,
                   fetchingBookmarks, requests, db, nextId, failures, subs,
                   connected, events, lastOp, page, alerts, setup>>

\* Check 5: package.json has the dev, build and start scripts
CheckPackage ==
    /\ audit.pc = "package"
    /\ audit' = Checked(audit, audit.pkg # "ok", "summary")
    /\ UNCHANGED <<mounted, user, bookmarks, title, url, loading,
                   fetchingBookmarks, requests, db, nextId, failures, subs,
                   connected, events, lastOp, page, alerts, setup>>

\* Final summary: process.exit(1) if hasIssues, process.exit(0) otherwise.
Summary ==
    /\ audit.pc = "summary"
    /\ audit' = [audit EXCEPT !.pc = "done",
                              !.exit = IF audit.hasIssues THEN 1 ELSE 0]
    /\ UNCHANGED <<mounted, user, bookmarks, title, url, loading,
                   fetchingBookmarks, requests, db, nextId, failures, subs,
                   connected, events, lastOp, page, alerts, setup>>

\* Both effects of the first render: fetchBookmarks(), then the subscription.
Mount ==
    /\ page = "bookmarks"
    /\ ~mounted
    /\ mounted' = TRUE
    /\ fetchingBookmarks' = TRUE
    /\ requests' = Issue(ListRequest(user, NoId))
    /\ subs' = Append(subs, Subscription(user))
    /\ lastOp' = Op("mount", NoId, TRUE)
    /\ UNCHANGED <<user, bookmarks, title, url, loading, db, nextId,
                   connected, events, failures, page, alerts, setup, audit>>

SetTitle(s) ==
    /\ mounted /\ ~loading
    /\ title' = s
    /\ lastOp' = Op("setTitle", NoId, TRUE)
    /\ UNCHANGED <<mounted, user, bookmarks, url, loading, fetchingBookmarks,
                   requests, db, nextId, subs, connected, events, failures,
                   page, alerts, setup, audit>>

SetUrl(s) ==
    /\ mounted /\ ~loading
    /\ url' = s
    /\ lastOp' = Op("setUrl", NoId, TRUE)
    /\ UNCHANGED <<mounted, user, bookmarks, title, loading,
                   fetchingBookmarks, requests, db, nextId, subs, connected,
                   events, failures, page, alerts, setup, audit>>

\* addBookmark up to its await.
AddBookmark ==
    /\ mounted /\ ~loading
    /\ lastOp' = Op("addBookmark", NoId, TRUE)
    /\ IF IsBlank(title) \/ IsBlank(url)
       THEN UNCHANGED <<loading, requests>>
       ELSE /\ BagCardinality(requests) < MaxInflight
            /\ IdsLeft
            /\ loading' = TRUE
            /\ requests' = Issue(
                   Request("insert", user, NoId, Trim(title), Trim(url)))
    /\ UNCHANGED <<mounted, user, bookmarks, title, url, fetchingBookmarks,
                   db, nextId, subs, connected, events, failures, page,
                   alerts, setup, audit>>

\* addBookmark after its await.
AddResolve(r) ==
    /\ r \in InFlight
    /\ r.kind = "insert"
    /\ r.stage # "sent"
    /\ IF r.stage = "error"
       THEN LET form == OnAddFailed([title |-> title, url |-> url]) IN
              /\ alerts' = alerts + 1
              /\ title' = form.title
              /\ url' = form.url
              /\ lastOp' = Op("addFailed", NoId, TRUE)
              /\ UNCHANGED bookmarks
       ELSE LET new == OnCreated(bookmarks, r.data[1]) IN
              /\ bookmarks' = new
              /\ title' = <<>>
              /\ url' = <<>>
              /\ lastOp' = Op("addOk", r.data[1].id, new = bookmarks)
              /\ UNCHANGED alerts
    /\ loading' = FALSE
    /\ requests' = Settle(r)
    /\ UNCHANGED <<mounted, user, fetchingBookmarks, db, nextId, subs,
                   connected, events, failures, page, setup, audit>>

\* deleteBookmark up to its await.
DeleteBookmark(id) ==
    /\ mounted /\ ~fetchingBookmarks
    /\ id \in Ids(bookmarks)
    /\ BagCardinality(requests) < MaxInflight
    /\ bookmarks' = OnDelete(bookmarks, id)
    /\ requests' = Issue(Request("delete", user, id, <<>>, <<>>))
    /\ lastOp' = Op("deleteBookmark", id, FALSE)
    /\ UNCHANGED <<mounted, user, title, url, loading, fetchingBookmarks, db,
                   nextId, subs, connected, events, failures, page, alerts,
                   setup, audit>>

\* deleteBookmark after its await; on error it calls fetchBookmarks().
DeleteResolve(r) ==
    /\ r \in InFlight
    /\ r.kind = "delete"
    /\ r.stage # "sent"
    /\ IF r.stage = "error"
       THEN /\ alerts' = alerts + 1
            /\ fetchingBookmarks' = TRUE
            /\ requests' = Settle(r) (+) SetToBag({ListRequest(r.owner, r.id)})
            /\ lastOp' = Op("deleteFailed", r.id, TRUE)
       ELSE /\ requests' = Settle(r)
            /\ lastOp' = Op("deleteOk", r.id, TRUE)
            /\ UNCHANGED <<fetchingBookmarks, alerts>>
    /\ UNCHANGED <<mounted, user, bookmarks, title, url, loading, db, nextId,
                   subs, connected, events, failures, page, setup, audit>>

\* fetchBookmarks after its await.
FetchResolve(r) ==
    /\ r \in InFlight
    /\ r.kind = "list"
    /\ r.stage # "sent"
    /\ IF r.stage = "error"
       THEN /\ bookmarks' = OnFetchFailed(bookmarks)
            /\ lastOp' = Op("fetchFailed", r.id, TRUE)
       ELSE LET new == OnFetched(bookmarks, r.data) IN
              /\ bookmarks' = new
              /\ lastOp' = Op("fetchOk", r.id, new = bookmarks)
    /\ fetchingBookmarks' = FALSE
    /\ requests' = Settle(r)
    /\ UNCHANGED <<mounted, user, title, url, loading, db, nextId, subs,
                   connected, events, failures, page, alerts, setup, audit>>

\* The subscription's callback, applied to the next notification.
OnEvent ==
    /\ events # <<>>
    /\ LET e == Head(events)
           new == OnPayload(bookmarks, e)
       IN /\ bookmarks' = new
          /\ lastOp' = Op(e.kind, e.rec.id, new = bookmarks)
    /\ events' = Tail(events)
    /\ UNCHANGED <<mounted, user, title, url, loading, fetchingBookmarks,
                   requests, db, nextId, subs, connected, failures, page,
                   alerts, setup, audit>>

----------------------------------------------------------------------------
\* The backend.

GatewayInsert(r) ==
    /\ r \in InFlight
    /\ r.kind = "insert" /\ r.stage = "sent"
    /\ LET rec == Row(nextId, r.owner, r.title,
                      r.url) IN
         /\ db' = db \cup {rec}
         /\ requests' = Answer(r, "ok", <<rec>>)
         /\ events' = Emit(Event("INSERT", rec))
    /\ nextId' = nextId + 1
    /\ UNCHANGED <<mounted, user, bookmarks, title, url, loading,
                   fetchingBookmarks, subs, connected, lastOp, failures, page,
                   alerts, setup, audit>>

GatewayList(r) ==
    /\ r \in InFlight
    /\ r.kind = "list" /\ r.stage = "sent"
    /\ requests' = Answer(r, "ok", OrderDesc(OwnedBy(r.owner)))
    /\ UNCHANGED <<mounted, user, bookmarks, title, url, loading,
                   fetchingBookmarks, db, nextId, subs, connected, events,
                   lastOp, failures, page, alerts, setup, audit>>

\* Row-level security: only the caller's own rows are deleted; matching no
\* row is not an error.
GatewayDelete(r) ==
    /\ r \in InFlight
    /\ r.kind = "delete" /\ r.stage = "sent"
    /\ LET hit == { q \in OwnedBy(r.owner) : q.id = r.id } IN
         /\ db' = db \ hit
         /\ events' = IF hit = {} THEN events
                      ELSE Emit(Event("DELETE", CHOOSE q \in hit : TRUE))
    /\ requests' = Answer(r, "ok", <<>>)
    /\ UNCHANGED <<mounted, user, bookmarks, title, url, loading,
                   fetchingBookmarks, nextId, subs, connected, lastOp,
                   failures, page, alerts, setup, audit>>

\* PersistenceError: the call fails and the table is untouched.
GatewayFail(r) ==
    /\ r \in InFlight
    /\ r.stage = "sent"
    /\ failures < MaxFailures
    /\ failures' = failures + 1
    /\ requests' = Answer(r, "error", <<>>)
    /\ UNCHANGED <<mounted, user, bookmarks, title, url, loading,
                   fetchingBookmarks, db, nextId, subs, connected, events,
                   lastOp, page, alerts, setup, audit>>

\* What an outage makes of a round trip: a call not yet handled fails.
Failed(r) == IF r.stage = "sent" THEN [r EXCEPT !.stage = "error"] ELSE r

\* The round trips of S, each as often as it is in flight, after an outage.
RECURSIVE FailAll(_)
FailAll(S) ==
    IF S = {} THEN EmptyBag
    ELSE LET r == CHOOSE q \in S : TRUE
         IN FailAll(S \ {r}) (+) [q \in {Failed(r)} |-> CopiesIn(r, requests)]

\* The backend is unreachable for a moment: every call it has not handled
\* yet fails, and the table is untouched.
GatewayOutage ==
    /\ \E r \in InFlight : r.stage = "sent"
    /\ failures < MaxFailures
    /\ failures' = failures + 1
    /\ requests' = FailAll(InFlight)
    /\ UNCHANGED <<mounted, user, bookmarks, title, url, loading,
                   fetchingBookmarks, db, nextId, subs, connected, events,
                   lastOp, page, alerts, setup, audit>>

\* Another session (another tab or device, or another user) writes the table.
OtherInsert(owner) ==
    /\ IdsLeft
    /\ LET rec == Row(nextId, owner, <<"a">>, <<"a">>) IN
         /\ db' = db \cup {rec}
         /\ events' = Emit(Event("INSERT", rec))
    /\ nextId' = nextId + 1
    /\ UNCHANGED <<mounted, user, bookmarks, title, url, loading,
                   fetchingBookmarks, requests, subs, connected, lastOp,
                   failures, page, alerts, setup, audit>>

OtherDelete(rec) ==
    /\ rec \in db
    /\ db' = db \ {rec}
    /\ events' = Emit(Event("DELETE", rec))
    /\ UNCHANGED <<mounted, user, bookmarks, title, url, loading,
                   fetchingBookmarks, requests, nextId, subs, connected,
                   lastOp, failures, page, alerts, setup, audit>>

OtherUpdate(rec) ==
    /\ rec \in db
    /\ rec.title # EditedTitle
    /\ LET new == [rec EXCEPT !.title = EditedTitle] IN
         /\ db' = (db \ {rec}) \cup {new}
         /\ events' = Emit(Event("UPDATE", new))
    /\ UNCHANGED <<mounted, user, bookmarks, title, url, loading,
                   fetchingBookmarks, requests, nextId, subs, connected,
                   lastOp, failures, page, alerts, setup, audit>>

----------------------------------------------------------------------------
\* The notifier's connection drops: what was on its way is lost, and so is
\* every change made while it is down (Emit).
ConnectionLost ==
    /\ Filters # {} /\ connected
    /\ connected' = FALSE
    /\ events' = <<>>
    /\ UNCHANGED <<mounted, user, bookmarks, title, url, loading,
                   fetchingBookmarks, requests, db, nextId, subs, lastOp,
                   failures, page, alerts, setup, audit>>

\* The channel rejoins; the status callback of .subscribe() only logs.
Resubscribed ==
    /\ Filters # {} /\ ~connected
    /\ connected' = TRUE
    /\ lastOp' = Op("subscribed", NoId, TRUE)
    /\ UNCHANGED <<mounted, user, bookmarks, title, url, loading,
                   fetchingBookmarks, requests, db, nextId, subs, events,
                   failures, page, alerts, setup, audit>>

\* The parent renders the component with another user: the subscription
\* effect (deps [user.id]) cleans up and subscribes again; the fetch effect
\* (deps []) does not run.
UserChange(u) ==
    /\ mounted
    /\ u # user
    /\ Len(subs) < MaxSubs
    /\ user' = u
    /\ subs' = Append(Cleanup(subs), Subscription(u))
    /\ connected' = TRUE
    /\ events' = <<>>
    /\ lastOp' = Op("userChange", NoId, TRUE)
    /\ UNCHANGED <<mounted, bookmarks, title, url, loading, fetchingBookmarks,
                   requests, db, nextId, failures, page, alerts, setup, audit>>

\* The component leaves the screen (handleLogout's router.push('/login'), or
\* any navigation): React runs the subscription effect's cleanup.
Unmount ==
    /\ mounted
    /\ mounted' = FALSE
    /\ page' = "login"
    /\ subs' = Cleanup(subs)
    /\ events' = <<>>
    /\ lastOp' = Op("unmount", NoId, TRUE)
    /\ UNCHANGED <<user, bookmarks, title, url, loading, fetchingBookmarks,
                   requests, db, nextId, failures, connected, alerts, setup,
                   audit>>

\* A misconfigured notifier: a change to another owner's row is delivered to
\* this subscription.
Misdeliver(kind, rec) ==
    /\ Filters # {} /\ connected
    /\ rec \in db
    /\ rec.user_id \notin Filters
    /\ \A i \in DOMAIN events : events[i] # Event(kind, rec)
    /\ events' = Append(events, Event(kind, rec))
    /\ UNCHANGED <<mounted, user, bookmarks, title, url, loading,
                   fetchingBookmarks, requests, db, nextId, subs, connected,
                   lastOp, failures, page, alerts, setup, audit>>

\* The form, filled in with input the validation accepts or with any input.
Typing(inputs) ==
    \/ \E s \in inputs : SetTitle(s)
    \/ \E s \in inputs : SetUrl(s)

\* fetchBookmarks and the gateway's list.
Loading ==
    \/ Mount
    \/ \E r \in InFlight : GatewayList(r)
    \/ \E r \in InFlight : FetchResolve(r)

\* addBookmark and the gateway's insert.
Creating ==
    \/ AddBookmark
    \/ \E r \in InFlight : GatewayInsert(r)
    \/ \E r \in InFlight : AddResolve(r)

\* deleteBookmark and the gateway's delete.
Deleting ==
    \/ \E id \in 1..MaxId : DeleteBookmark(id)
    \/ \E r \in InFlight : GatewayDelete(r)
    \/ \E r \in InFlight : DeleteResolve(r)

Failure == \E r \in InFlight : GatewayFail(r)

Others ==
    \/ OtherInsert(user)
    \/ \E rec \in OwnedBy(user) : OtherDelete(rec)

\* The component against a gateway that answers every call.
Next ==
    \/ Typing(ValidInputs)
    \/ Loading
    \/ Creating
    \/ Deleting
    \/ OnEvent

Spec == Init /\ [][Next]_vars

\* The form with any input typed into it, and the create path.
NextForm ==
    \/ Typing(FormInputs)
    \/ Loading
    \/ Creating
    \/ OnEvent

SpecForm == Init /\ [][NextForm]_vars

\* Deleting rows that another session of the user created, against a
\* gateway whose calls may fail.
NextRollback ==
    \/ Loading
    \/ Deleting
    \/ OnEvent
    \/ OtherInsert(user)
    \/ Failure

SpecRollback == Init /\ [][NextRollback]_vars

\* Gateway calls may fail.
NextFailure == Next \/ Failure

SpecFailure == Init /\ [][NextFailure]_vars

\* Other sessions of the same user write the table.
NextShared == Next \/ Others

SpecShared == Init /\ [][NextShared]_vars

\* The notifier's connection drops and comes back; the user may change.
NextReconnect ==
    \/ Next
    \/ ConnectionLost
    \/ Resubscribed
    \/ \E u \in Users : UserChange(u)

SpecReconnect == Init /\ [][NextReconnect]_vars

\* Another user writes the table and the notifier's filter leaks.
NextUnfiltered ==
    \/ Next
    \/ \E u \in Users \ {user} : OtherInsert(u)
    \/ \E kind \in {"INSERT", "UPDATE"} : \E rec \in db : Misdeliver(kind, rec)

SpecUnfiltered == Init /\ [][NextUnfiltered]_vars

\* The life of the subscription: the component mounts, is rendered with
\* another user, and leaves the screen, while the table changes.
NextLifecycle ==
    \/ Loading
    \/ OnEvent
    \/ \E u \in Users : OtherInsert(u)
    \/ \E u \in Users : UserChange(u)
    \/ Unmount

SpecLifecycle == Init /\ [][NextLifecycle]_vars

\* Other sessions of this user add rows and edit them.
NextUpdates ==
    \/ Loading
    \/ OnEvent
    \/ OtherInsert(user)
    \/ \E rec \in OwnedBy(user) : OtherUpdate(rec)

SpecUpdates == Init /\ [][NextUpdates]_vars

\* The form and the create path against a gateway that may fail.
NextCreate == NextForm \/ Failure

SpecCreate == Init /\ [][NextCreate]_vars

\* The route is requested first; the component runs only if it is rendered.
NextAuth == BookmarksPage \/ Next

SpecAuth == InitAuth /\ [][NextAuth]_vars

\* A run of the setup utility.
NextSetup == SetupStart \/ SetupSelect \/ SetupInsert

SpecSetup == InitSetup /\ [][NextSetup]_vars

\* Every writer of the collection, applied to any collection and any
\* notification or response.
NextFrame ==
    \/ OnEvent
    \/ \E r \in InFlight : AddResolve(r)
    \/ \E id \in 1..MaxId : DeleteBookmark(id)
    \/ \E r \in InFlight : FetchResolve(r)

SpecFrame == InitFrame /\ [][NextFrame]_vars

\* Deletes of rows another session inserted, against a gateway that works.
NextDelete ==
    \/ Loading
    \/ Deleting
    \/ OnEvent
    \/ OtherInsert(user)

SpecDelete == Init /\ [][NextDelete]_vars

\* Deletes against a gateway that has an outage.
NextOutage == NextDelete \/ GatewayOutage

SpecOutage == Init /\ [][NextOutage]_vars

\* A run of the security audit.
NextAudit ==
    \/ CheckGitignore
    \/ CheckEnvExample
    \/ ScanSource
    \/ CheckGitStatus
    \/ CheckPackage
    \/ Summary

SpecAudit == InitAudit /\ [][NextAudit]_vars

----------------------------------------------------------------------------
\* Properties.

AllIds == 1..MaxId

Quiescent == mounted /\ requests = EmptyBag /\ events = <<>>

Collection == { bookmarks[i] : i \in DOMAIN bookmarks }

\* C1: the collection never holds two records with the same id.
NoDuplicates == \A id \in AllIds : Count(bookmarks, id) <= 1

\* C2: a remote INSERT for an id that is already in the collection (its create
\* was prepended first) leaves the collection as it is, so a collection that
\* holds the id once still holds it once.
InsertNotificationIgnored ==
    [][(OnEvent /\ Head(events).kind = "INSERT"
              /\ Exists(bookmarks, Head(events).rec.id))
       => /\ bookmarks' = bookmarks
          /\ Count(bookmarks', Head(events).rec.id)
               = Count(bookmarks, Head(events).rec.id)]_vars

\* C2 witness: no load has resolved yet, so the record is in the collection
\* through its create alone; the INSERT notification for it has just been
\* applied and ignored, and the record is there once.
InsertNotificationIgnoredWitness ==
    /\ lastOp.op = "INSERT" /\ lastOp.kept
    /\ \E r \in InFlight : r.kind = "list" /\ r.id = NoId
    /\ Count(bookmarks, lastOp.id) = 1

\* C3: the create's success handler leaves the collection as it is when the
\* returned record's id is already in it.
CreateSkipsPresentId ==
    [][\A r \in InFlight :
          (AddResolve(r) /\ r.stage = "ok" /\ Exists(bookmarks, r.data[1].id))
          => bookmarks' = bookmarks]_vars

\* C4: a remote event about another owner's record never changes the
\* collection.
ForeignEventRejected ==
    [][(OnEvent /\ Head(events).rec.user_id # user)
       => bookmarks' = bookmarks]_vars

\* C5: a failed delete issues a corrective load; when that load resolves
\* the collection is the list the gateway returned, so a record whose delete
\* failed and which the table still holds is in the collection again.
RollbackOnFailedDelete ==
    /\ [](( /\ lastOp.op = "fetchOk" /\ lastOp.id # NoId
            /\ \E row \in OwnedBy(user) : row.id = lastOp.id)
          => Exists(bookmarks, lastOp.id))
    /\ [][\A r \in InFlight :
            /\ (DeleteResolve(r) /\ r.stage = "error")
               => /\ fetchingBookmarks'
                  /\ ListRequest(r.owner, r.id) \in BagToSet(requests')
            /\ (FetchResolve(r) /\ r.stage = "ok")
               => bookmarks' = r.data]_vars

\* C5 witness: the corrective load after the failed delete of a record has
\* resolved and the record, still in the table, is back in the collection.
RollbackOnFailedDeleteWitness ==
    /\ lastOp.op = "fetchOk" /\ lastOp.id # NoId /\ ~lastOp.kept
    /\ Exists(bookmarks, lastOp.id)
    /\ bookmarks = OrderDesc(OwnedBy(user))

\* C6: a remote DELETE leaves the collection without the id, and leaves the
\* collection as it is when the id is not in it.
DeleteIdempotent ==
    [][(OnEvent /\ Head(events).kind = "DELETE")
       => /\ ~Exists(bookmarks', Head(events).rec.id)
          /\ ~Exists(bookmarks, Head(events).rec.id)
             => bookmarks' = bookmarks]_vars

\* C6 witness: deleteBookmark removed the record (its round trip is answered
\* and not yet resumed), the remote DELETE for it was then applied to a
\* collection that holds other records, and changed nothing.
DeleteIdempotentWitness ==
    /\ lastOp.op = "DELETE" /\ lastOp.kept
    /\ bookmarks # <<>>
    /\ ~Exists(bookmarks, lastOp.id)
    /\ \E r \in InFlight :
          r.kind = "delete" /\ r.id = lastOp.id /\ r.stage = "ok"

\* C7: a create that succeeds with a record not in the collection puts it in
\* front of the collection and keeps the rest in order.
CreatePrepends ==
    [][\A r \in InFlight :
          (AddResolve(r) /\ r.stage = "ok" /\ ~Exists(bookmarks, r.data[1].id))
          => bookmarks' = <<r.data[1]>> \o bookmarks]_vars

\* C7 witness: a create has just put its record in front of an older one.
CreatePrependsWitness ==
    /\ lastOp.op = "addOk"
    /\ Len(bookmarks) = 2
    /\ bookmarks[1].id = lastOp.id
    /\ bookmarks[2].created_at < bookmarks[1].created_at

\* C8: a submit whose title or url is empty after trimming changes nothing:
\* no gateway call, no change of the collection, the form or the flags.
ValidationBlocksEmpty ==
    [][(AddBookmark /\ (Trim(title) = <<>> \/ Trim(url) = <<>>))
       => UNCHANGED <<mounted, user, bookmarks, title, url, loading,
                      fetchingBookmarks, requests, db, nextId, failures, subs,
                      connected, events, page, alerts, setup, audit>>]_vars

\* C8 witness: a whitespace-only title has just been submitted with a good
\* url and no create is in flight.
ValidationBlocksEmptyWitness ==
    /\ lastOp.op = "addBookmark"
    /\ title = <<" ">> /\ Trim(url) # <<>>
    /\ ~loading
    /\ \A r \in InFlight : r.kind # "insert"

\* C9: once every round trip has resolved and every notification has been
\* applied, the collection holds exactly the owner's rows of the table.
ConsistentWhenQuiescent == Quiescent => Collection = OwnedBy(user)

\* C10: every (re)subscription issues a load.
ResubscriptionLoads ==
    [][(Resubscribed \/ \E u \in Users : UserChange(u))
       => \E r \in BagToSet(requests') :
             /\ r.kind = "list" /\ r.stage = "sent" /\ r.owner = user'
             /\ CopiesIn(r, requests') > CopiesIn(r, requests)]_vars

\* C11: at most one subscription is active at any time and its filter is
\* the current user's id; every subscription is removed exactly once, before
\* or as the next one is established, and none outlives the component.
SubscriptionLifecycle ==
    /\ Cardinality(Active(subs)) <= 1
    /\ \A i \in Active(subs) : subs[i].filter = user
    /\ \A i \in DOMAIN subs : subs[i].removed <= 1
    /\ \A i \in DOMAIN subs : i < Len(subs) => subs[i].removed = 1
    /\ mounted => Cardinality(Active(subs)) = 1
    /\ ~mounted => Active(subs) = {}

\* The user changed and then the component left the screen.
SubscriptionLifecycleWitness ==
    /\ lastOp.op = "unmount"
    /\ Len(subs) >= 2
    /\ \A i \in DOMAIN subs : subs[i].removed = 1
    /\ subs[1].filter # subs[2].filter

\* C12: whoever the component is rendered for, and also after the user id
\* has changed, every record in the collection belongs to the current user.
OwnerScoped == \A i \in DOMAIN bookmarks : bookmarks[i].user_id = user

Sorted(current) ==
    \A i, j \in DOMAIN current :
        i < j => current[i].created_at >= current[j].created_at

\* C13 as stated: the collection is sorted by created_at descending in
\* every reachable state.
SortedAlways == Sorted(bookmarks)

\* C13, amended: the collection is sorted by created_at descending whenever
\* a load has just replaced it; the prepends of create responses and INSERT
\* notifications in between are not re-sorted.
SortedAfterLoad == lastOp.op = "fetchOk" => Sorted(bookmarks)

\* A load replaced a collection that was out of order by a sorted one of
\* two records.
SortedAfterLoadWitness ==
    /\ lastOp.op = "fetchOk"
    /\ ~lastOp.kept
    /\ Len(bookmarks) = 2
    /\ bookmarks[1].id # bookmarks[2].id

\* C14: when the list call succeeds the collection becomes exactly the
\* returned sequence; when it fails the collection stays as it was and the
\* handler issues no further call.
LoadReplacesOrKeeps ==
    [][\A r \in InFlight :
         /\ (FetchResolve(r) /\ r.stage = "ok") => bookmarks' = r.data
         /\ (FetchResolve(r) /\ r.stage = "error") =>
                /\ bookmarks' = bookmarks
                /\ requests' = Settle(r)
                /\ ~fetchingBookmarks']_vars

\* A load failed while the collection held a record, and nothing is in
\* flight afterwards.
LoadReplacesOrKeepsWitness ==
    /\ lastOp.op = "fetchFailed"
    /\ bookmarks # <<>>
    /\ requests = EmptyBag
    /\ ~fetchingBookmarks

\* C15: an UPDATE notification for an id the collection holds puts the
\* event's record where the old one was; the number of records and the
\* order of the others do not change.
UpdateInPlace ==
    [][(/\ OnEvent
        /\ Head(events).kind = "UPDATE"
        /\ Exists(bookmarks, Head(events).rec.id)) =>
          /\ Len(bookmarks') = Len(bookmarks)
          /\ \A i \in DOMAIN bookmarks :
                bookmarks'[i] = IF bookmarks[i].id = Head(events).rec.id
                                THEN Head(events).rec
                                ELSE bookmarks[i]]_vars

\* The second of two records was replaced by its edited version.
UpdateInPlaceWitness ==
    /\ lastOp.op = "UPDATE"
    /\ ~lastOp.kept
    /\ Len(bookmarks) = 2
    /\ bookmarks[2].id = lastOp.id
    /\ bookmarks[2].title = EditedTitle
    /\ bookmarks[1].title # EditedTitle

\* C16: an UPDATE notification for an id the collection does not hold
\* prepends the event's record, so the id is present afterwards.
UpdateInsertsAbsent ==
    [][(/\ OnEvent
        /\ Head(events).kind = "UPDATE"
        /\ ~Exists(bookmarks, Head(events).rec.id)) =>
          bookmarks' = <<Head(events).rec>> \o bookmarks]_vars

\* C17: when the insert fails the collection and the form's title and url
\* stay as they were; apart from the user's typing, the inputs change only
\* when a create succeeds, which clears them.
CreateFailureKeepsForm ==
    [][/\ \A r \in InFlight :
            (AddResolve(r) /\ r.stage = "error") =>
                /\ bookmarks' = bookmarks
                /\ title' = title
                /\ url' = url
       /\ (/\ (title' # title \/ url' # url)
           /\ lastOp'.op \notin {"setTitle", "setUrl"}) =>
                /\ lastOp'.op = "addOk"
                /\ title' = <<>>
                /\ url' = <<>>]_vars

\* A create failed and the form still shows what was submitted.
CreateFailureKeepsFormWitness ==
    /\ lastOp.op = "addFailed"
    /\ title = <<" ", "a">>
    /\ url = <<" ", "a">>
    /\ ~loading
    /\ alerts = 1

\* C18: every gateway call that fails, a load, a create or a delete, shows
\* the user a failure notice and is not issued again; the one call that
\* follows a failure is the corrective load after a failed delete.
FailureNoticed ==
    [][\A r \in InFlight :
         (/\ r.stage = "error"
          /\ FetchResolve(r) \/ AddResolve(r) \/ DeleteResolve(r)) =>
            /\ alerts' = alerts + 1
            /\ requests' = IF r.kind = "delete"
                           THEN Settle(r) (+) SetToBag({ListRequest(r.owner, r.id)})
                           ELSE Settle(r)]_vars

\* C19: when getUser() reports no user the page redirects to the sign-in
\* page and the component is never mounted: no request is issued, nothing
\* is subscribed and the collection stays empty.
NoUserNoComponent ==
    user = NoUser =>
        /\ page # "bookmarks"
        /\ ~mounted
        /\ requests = EmptyBag
        /\ subs = <<>>
        /\ bookmarks = <<>>
        /\ db = {}

\* The page was requested without a session and has redirected.
NoUserNoComponentWitness ==
    /\ user = NoUser
    /\ page = "login"
    /\ lastOp.op = "page"

Said(line) == \E i \in DOMAIN setup.log : setup.log[i] = line

\* C20: the setup utility exits non-zero whenever the bookmarks table is
\* missing or row-level security is not in force; it reports the database
\* as properly configured and exits normally only when the table exists and
\* the test insert was rejected by row-level security.
SetupVerdict ==
    setup.pc = "done" =>
        /\ (~setup.table \/ ~setup.rls) => setup.exit # 0
        /\ (setup.exit = 0 \/ Said("properly configured")) =>
              /\ setup.table
              /\ setup.rls
              /\ Said("rls working")

\* A file the scan looks at, anywhere under the directory, holds a
\* credential pattern.
RECURSIVE HasSecret(_)
HasSecret(dir) ==
    \E i \in DOMAIN dir :
        IF dir[i].kind = "dir" THEN HasSecret(dir[i].entries)
        ELSE Scanned(dir[i].ext) /\ dir[i].content = "secret"

\* C21: the audit exits with code 1 whenever a credential pattern occurs in
\* a source file under src/ or a .env file shows up in the version-control
\* status, and exits with code 0 only when no check flagged an issue.
AuditVerdict ==
    audit.pc = "done" =>
        /\ (HasSecret(audit.src) \/ audit.git = ".env listed") =>
              audit.exit = 1
        /\ audit.exit = 0 => ~audit.hasIssues

\* The backend created row k and holds it no longer: a gateway delete for it
\* has succeeded.
Deleted(k) == k < nextId /\ \A r \in db : r.id # k

\* C22: a deleted record does not come back: once the gateway delete for an
\* id has succeeded and the collection is without that id, no later step
\* makes a record with that id present again.
DeletedStaysAbsent ==
    [][\A k \in AllIds :
         (Deleted(k) /\ ~Exists(bookmarks, k)) => ~Exists(bookmarks', k)]_vars

\* C23: a notification and the handler of an answered create or delete
\* round trip for the same id commute: the collection is the same whichever
\* of the two is applied first.
HandlersCommute ==
    \A r \in InFlight :
        (/\ r.kind \in {"insert", "delete"}
         /\ r.stage # "sent"
         /\ events # <<>>
         /\ Head(events).rec.id = IdOf(r)) =>
            OnResolved(OnPayload(bookmarks, Head(events)), r)
              = OnPayload(OnResolved(bookmarks, r), Head(events))

\* A step about id k: the records with another id are the same, in the same
\* order, and where k was held at most once the length moves by at most one.
Frame(k) ==
    /\ OnDelete(bookmarks', k) = OnDelete(bookmarks, k)
    /\ Count(bookmarks, k) <= 1 =>
          Len(bookmarks') - Len(bookmarks) \in {-1, 0, 1}

\* C24: only a load replaces the collection wholesale; a create's success,
\* an optimistic delete and an INSERT, DELETE or UPDATE notification for id
\* k add, remove or replace the record with id k and leave every other
\* record, and the order of the others, as they were.
OnlyLoadReplaces ==
    [][/\ \A r \in InFlight : AddResolve(r) => Frame(IdOf(r))
       /\ \A id \in AllIds : DeleteBookmark(id) => Frame(id)
       /\ OnEvent => Frame(Head(events).rec.id)
       /\ (bookmarks' # bookmarks /\ ~\E r \in InFlight : FetchResolve(r))
             => \E k \in AllIds : Frame(k)]_vars

\* An UPDATE notification rewrote the middle one of three records.
OnlyLoadReplacesWitness ==
    /\ lastOp.op = "UPDATE"
    /\ ~lastOp.kept
    /\ Len(bookmarks) = 3
    /\ bookmarks[1].id # lastOp.id
    /\ bookmarks[2].id = lastOp.id
    /\ bookmarks[3].id # lastOp.id

\* C25: deleteBookmark(id) removes the record before the gateway has seen
\* the delete: the step that issues the request leaves the collection
\* without the id and the table as it was; when the delete succeeds, the
\* resuming handler changes nothing in the collection and issues no call.
OptimisticDelete ==
    [][/\ \A id \in AllIds :
            DeleteBookmark(id) =>
                /\ ~Exists(bookmarks', id)
                /\ db' = db
                /\ \E r \in BagToSet(requests') :
                      r.kind = "delete" /\ r.id = id /\ r.stage = "sent"
       /\ \A r \in InFlight :
            (DeleteResolve(r) /\ r.stage = "ok") =>
                /\ bookmarks' = bookmarks
                /\ requests' = Settle(r)]_vars

\* A delete was confirmed, nothing is in flight, and the record is gone
\* from the collection and from the table.
OptimisticDeleteWitness ==
    /\ lastOp.op = "deleteOk"
    /\ ~Exists(bookmarks, lastOp.id)
    /\ Deleted(lastOp.id)
    /\ requests = EmptyBag

LoadInFlight == \E r \in InFlight : r.kind = "list"

\* C26: once the component is mounted, fetchingBookmarks is true exactly
\* while a load round trip is in flight, overlapping loads included.
FlagTracksLoads == mounted => (fetchingBookmarks <=> LoadInFlight)

====
